---- MODULE Spec2Model ----
(***************************************************************************)
(* E-MFS: the in-memory file system of src/e-mfs.hpp.                      *)
(*                                                                         *)
(* The heap is a function from node identities (the addresses the          *)
(* shared_ptrs hold) to node records.  A path is a sequence of one-        *)
(* character strings, so that the splitting of a path into components is   *)
(* computed the way std::getline(ss, component, '/') computes it.          *)
(***************************************************************************)
EXTENDS Integers, Sequences, FiniteSets, TLC

VARIABLES heap, pre, last, pc

vars == <<heap, pre, last, pc>>

(***************************************************************************)
(* Bounds of the model.                                                    *)
(***************************************************************************)
\* Most nodes besides the root that a tree may hold after an operation.
MaxNodes == 3
\* Most bytes the files of a tree may hold together after an operation.
MaxBytes == 2

(***************************************************************************)
(* Nodes.                                                                  *)
(***************************************************************************)
\* FileSystem::root, the node made by the constructor.
Root == 0
\* The empty shared_ptr / an expired weak_ptr once locked.
Null == -1

NodeType == {"File", "Directory"}

\* An unordered_map with no entry.
NoChildren == << >>

\* FSNode(name, parent) as a DirectoryNode.
DirectoryNode(name, parent) ==
  [type |-> "Directory", name |-> name, parent |-> parent,
   content |-> << >>, children |-> NoChildren]

\* FSNode(name, parent) as a FileNode; content is empty until assigned.
FileNode(name, parent) ==
  [type |-> "File", name |-> name, parent |-> parent,
   content |-> << >>, children |-> NoChildren]

\* std::make_shared: an address no live node has.
make_shared(h) ==
  CHOOSE n \in 1..(Cardinality(DOMAIN h) + 1) :
    /\ n \notin DOMAIN h
    /\ \A m \in 1..(n - 1) : m \in DOMAIN h

\* lock() as it would be if every parent had expired.
lock_expired(h, p) == Null

\* weak_ptr::lock(): the node, or null when it has been destroyed.
lock(h, p) == IF p \in DOMAIN h THEN p ELSE Null

Range(f) == {f[k] : k \in DOMAIN f}

\* children[name] = node
insert(ch, name, node) == (name :> node) @@ ch

\* children.erase(name)
erase(ch, name) == [k \in (DOMAIN ch) \ {name} |-> ch[k]]

\* The nodes some chain of shared_ptrs from the given ones keeps alive.
RECURSIVE Owned(_, _)
Owned(h, S) ==
  LET T == S \cup UNION {Range(h[n].children) \cap DOMAIN h : n \in S}
  IN  IF T = S THEN S ELSE Owned(h, T)

\* A node no shared_ptr holds any more is destroyed when the call returns.
release(h) == [n \in Owned(h, {Root}) |-> h[n]]

(***************************************************************************)
(* Results.  A FileSystemException is named by the error kind its message  *)
(* states; "crash" is the process dying (stack exhaustion, null access).   *)
(***************************************************************************)
Ok(h) == [status |-> "ok", heap |-> h]
Throw(kind, h) == [status |-> kind, heap |-> h]
Crash(h) == [status |-> "crash", heap |-> h]

Found(n) == [err |-> "ok", node |-> n, name |-> << >>]
Target(n, name) == [err |-> "ok", node |-> n, name |-> name]
Fail(kind) == [err |-> kind, node |-> Null, name |-> << >>]

(***************************************************************************)
(* Path splitting: std::getline(ss, component, '/').                       *)
(***************************************************************************)
DelimPos(s) ==
  IF \E i \in 1..Len(s) : s[i] = "/"
  THEN CHOOSE i \in 1..Len(s) : s[i] = "/" /\ \A j \in 1..(i - 1) : s[j] # "/"
  ELSE Len(s) + 1

\* One getline: the component read and what is left in the stream.
getline(s) ==
  LET k == DelimPos(s)
  IN  [component |-> SubSeq(s, 1, k - 1), rest |-> SubSeq(s, k + 1, Len(s))]

\* if (ss.peek() == '/') ss.ignore();
ignoreLeadingSlash(path) ==
  IF path # << >> /\ Head(path) = "/" THEN Tail(path) ELSE path

\* path.find_last_of('/'), 1-based; 0 is npos.
find_last_of(path) ==
  IF \E i \in 1..Len(path) : path[i] = "/"
  THEN CHOOSE i \in 1..Len(path) :
         path[i] = "/" /\ \A j \in (i + 1)..Len(path) : path[j] # "/"
  ELSE 0

(***************************************************************************)
(* FileSystem::_resolvePath                                                *)
(***************************************************************************)
RECURSIVE resolveLoop(_, _, _)
resolveLoop(h, current, s) ==
  IF current = Null THEN Fail("crash")
  ELSE IF s = << >> THEN Found(current)
  ELSE
    LET g == getline(s)
        component == g.component
    IN  IF component = << >> \/ component = <<".">>
        THEN resolveLoop(h, current, g.rest)
        ELSE IF component = <<".", ".">>
        THEN resolveLoop(h,
               IF current # Root THEN lock(h, h[current].parent) ELSE current,
               g.rest)
        ELSE IF component \notin DOMAIN h[current].children
        THEN Fail("NotFound")
        ELSE
          LET it == h[current].children[component]
          IN  IF h[it].type # "Directory" /\ g.rest # << >>
              THEN Fail("NotADirectory")
              ELSE IF h[it].type = "Directory"
              THEN resolveLoop(h, it, g.rest)
              ELSE Found(it)

_resolvePath(h, path) ==
  IF path = << >> THEN Fail("InvalidPath")
  ELSE IF path = <<"/">> THEN Found(Root)
  ELSE resolveLoop(h, Root, ignoreLeadingSlash(path))

(***************************************************************************)
(* FileSystem::_resolveParentAndName                                       *)
(***************************************************************************)
_resolveParentAndName(h, path) ==
  IF path = << >> \/ path = <<"/">> THEN Fail("InvalidPath")
  ELSE
    LET last_slash == find_last_of(path)
    IN  IF last_slash = 0 THEN Fail("InvalidPath")
        ELSE
          LET parentPath == IF last_slash = 1 THEN <<"/">>
                            ELSE SubSeq(path, 1, last_slash - 1)
              childName == SubSeq(path, last_slash + 1, Len(path))
          IN  IF childName = << >> THEN Fail("InvalidPath")
              ELSE
                LET parentNode == _resolvePath(h, parentPath)
                IN  IF parentNode.err # "ok" THEN parentNode
                    ELSE IF h[parentNode.node].type # "Directory"
                    THEN Fail("NotADirectory")
                    ELSE Target(parentNode.node, childName)

(***************************************************************************)
(* FileSystem::_resolveDestination.  Both "already exists" exceptions are  *)
(* thrown inside the try block, so the catch clause handles them like a    *)
(* path that does not resolve.                                             *)
(***************************************************************************)
\* _resolveDestination as it would be without the fall-back to the parent.
_resolveDestination_strict(h, dest_path, source_name) ==
  LET dest_node == _resolvePath(h, dest_path)
  IN  IF dest_node.err # "ok" THEN dest_node
      ELSE IF h[dest_node.node].type # "Directory" THEN Fail("AlreadyExists")
      ELSE IF source_name \in DOMAIN h[dest_node.node].children
      THEN Fail("AlreadyExists")
      ELSE Target(dest_node.node, source_name)

_resolveDestination(h, dest_path, source_name) ==
  LET dest_node == _resolvePath(h, dest_path)
  IN  IF /\ dest_node.err = "ok"
         /\ h[dest_node.node].type = "Directory"
         /\ source_name \notin DOMAIN h[dest_node.node].children
      THEN Target(dest_node.node, source_name)
      ELSE IF dest_node.err = "crash" THEN dest_node
      ELSE _resolveParentAndName(h, dest_path)

(***************************************************************************)
(* FileSystem::_recursiveCopy.  The heap is threaded through the loop over *)
(* source->children; depth counts the frames of the recursion, and a       *)
(* recursion deeper than the stack holds ends the process.                 *)
(***************************************************************************)
\* Frames of _recursiveCopy the stack holds.
StackDepth == 6

Copied(h) == [over |-> FALSE, heap |-> h]
Overflow(h) == [over |-> TRUE, heap |-> h]

\* dest->children[name] = node, for a node just made.
attach(h, id, node) ==
  [n \in (DOMAIN h) \cup {id} |->
     IF n = id THEN node
     ELSE IF n = node.parent
     THEN [h[n] EXCEPT !.children = insert(h[n].children, node.name, id)]
     ELSE h[n]]

RECURSIVE _recursiveCopy(_, _, _, _)
RECURSIVE copyLoop(_, _, _, _, _)
copyLoop(h, source, todo, dest, depth) ==
  IF todo = {} THEN Copied(h)
  ELSE
    LET name == CHOOSE x \in todo : TRUE
        child == h[source].children[name]
        new == make_shared(h)
    IN  IF h[child].type = "File"
        THEN LET newFile == [FileNode(h[child].name, dest)
                               EXCEPT !.content = h[child].content]
             IN  copyLoop(attach(h, new, newFile), source, todo \ {name},
                          dest, depth)
        ELSE LET newDir == DirectoryNode(h[child].name, dest)
                 sub == _recursiveCopy(attach(h, new, newDir), child, new,
                                       depth + 1)
             IN  IF sub.over THEN sub
                 ELSE copyLoop(sub.heap, source, todo \ {name}, dest, depth)

\* _recursiveCopy as it would be if it copied nothing.
_recursiveCopy_nothing(h, source, dest, depth) == Copied(h)

_recursiveCopy(h, source, dest, depth) ==
  IF depth > StackDepth THEN Overflow(h)
  ELSE copyLoop(h, source, DOMAIN h[source].children, dest, depth)

(***************************************************************************)
(* FileSystem::mkdir                                                       *)
(***************************************************************************)
RECURSIVE mkdirLoop(_, _, _)
mkdirLoop(h, current, s) ==
  IF s = << >> THEN Ok(h)
  ELSE
    LET g == getline(s)
        component == g.component
    IN  IF component = << >> THEN mkdirLoop(h, current, g.rest)
        ELSE IF component \notin DOMAIN h[current].children
        THEN LET newDir == make_shared(h)
             IN  mkdirLoop(attach(h, newDir, DirectoryNode(component, current)),
                           newDir, g.rest)
        ELSE LET it == h[current].children[component]
             IN  IF h[it].type # "Directory"
                 THEN Throw("NotADirectory", h)
                 ELSE mkdirLoop(h, it, g.rest)

mkdir(h, path) ==
  IF path = <<"/">> THEN Ok(h)
  ELSE mkdirLoop(h, Root, ignoreLeadingSlash(path))

(***************************************************************************)
(* FileSystem::touch                                                       *)
(***************************************************************************)
touch(h, path) ==
  LET t == _resolveParentAndName(h, path)
  IN  IF t.err # "ok" THEN Throw(t.err, h)
      ELSE IF t.name \in DOMAIN h[t.node].children
      THEN IF h[h[t.node].children[t.name]].type # "File"
           THEN Throw("NotAFile", h)
           ELSE Ok(h)
      ELSE Ok(attach(h, make_shared(h), FileNode(t.name, t.node)))

(***************************************************************************)
(* FileSystem::writeFile                                                   *)
(***************************************************************************)
writeFile(h, path, content) ==
  LET t == _resolveParentAndName(h, path)
  IN  IF t.err # "ok" THEN Throw(t.err, h)
      ELSE IF /\ t.name \in DOMAIN h[t.node].children
              /\ h[h[t.node].children[t.name]].type = "Directory"
      THEN Throw("IsADirectory", h)
      ELSE LET file == [FileNode(t.name, t.node) EXCEPT !.content = content]
           IN  Ok(release(attach(h, make_shared(h), file)))

(***************************************************************************)
(* FileSystem::append                                                      *)
(***************************************************************************)
\* append as it would be if files of equal content shared their bytes.
append_shared(h, path, content) ==
  LET node == _resolvePath(h, path)
  IN  IF node.err # "ok" THEN Throw(node.err, h)
      ELSE IF h[node.node].type # "File" THEN Throw("NotAFile", h)
      ELSE Ok([n \in DOMAIN h |->
                 IF h[n].type = "File" /\ h[n].content = h[node.node].content
                 THEN [h[n] EXCEPT !.content = @ \o content]
                 ELSE h[n]])

append(h, path, content) ==
  LET node == _resolvePath(h, path)
  IN  IF node.err # "ok" THEN Throw(node.err, h)
      ELSE IF h[node.node].type # "File" THEN Throw("NotAFile", h)
      ELSE Ok([h EXCEPT ![node.node].content = @ \o content])

(***************************************************************************)
(* FileSystem::rm                                                          *)
(***************************************************************************)
\* rm as it would be with the entry erased before the emptiness test.
rm_eraseFirst(h, path, recursive) ==
  LET t == _resolveParentAndName(h, path)
  IN  IF path = <<"/">> THEN Throw("InvalidPath", h)
      ELSE IF t.err # "ok" THEN Throw(t.err, h)
      ELSE IF t.name \notin DOMAIN h[t.node].children THEN Throw("NotFound", h)
      ELSE
        LET it == h[t.node].children[t.name]
            erased == release([h EXCEPT ![t.node].children = erase(@, t.name)])
        IN  IF /\ h[it].type = "Directory"
               /\ ~recursive
               /\ DOMAIN h[it].children # {}
            THEN Throw("DirectoryNotEmpty", erased)
            ELSE Ok(erased)

rm(h, path, recursive) ==
  IF path = <<"/">> THEN Throw("InvalidPath", h)
  ELSE
    LET t == _resolveParentAndName(h, path)
    IN  IF t.err # "ok" THEN Throw(t.err, h)
        ELSE IF t.name \notin DOMAIN h[t.node].children
        THEN Throw("NotFound", h)
        ELSE
          LET it == h[t.node].children[t.name]
          IN  IF /\ h[it].type = "Directory"
                 /\ ~recursive
                 /\ DOMAIN h[it].children # {}
              THEN Throw("DirectoryNotEmpty", h)
              ELSE Ok(release([h EXCEPT ![t.node].children = erase(@, t.name)]))

(***************************************************************************)
(* FileSystem::cp                                                          *)
(***************************************************************************)
cp(h, sourcePath, destPath) ==
  LET sourceNode == _resolvePath(h, sourcePath)
  IN  IF sourceNode.err # "ok" THEN Throw(sourceNode.err, h)
      ELSE
        LET d == _resolveDestination(h, destPath, h[sourceNode.node].name)
            new == make_shared(h)
        IN  IF d.err # "ok" THEN Throw(d.err, h)
            ELSE IF d.name \in DOMAIN h[d.node].children
            THEN Throw("AlreadyExists", h)
            ELSE IF h[sourceNode.node].type = "File"
            THEN LET newFile == [FileNode(d.name, d.node)
                                   EXCEPT !.content = h[sourceNode.node].content]
                 IN  Ok(attach(h, new, newFile))
            ELSE LET newDir == DirectoryNode(d.name, d.node)
                     copy == _recursiveCopy(attach(h, new, newDir),
                                            sourceNode.node, new, 1)
                 IN  IF copy.over THEN Crash(h) ELSE Ok(copy.heap)

(***************************************************************************)
(* FileSystem::mv                                                          *)
(***************************************************************************)
\* while (tempParent) { if (tempParent.get() == sourceNode.get()) throw ...;
\*                      tempParent = tempParent->parent.lock(); }
\* A parent chain that never ends keeps the loop running for ever.
\* The cycle check as it would be if it never found the source.
movesIntoItself_never(h, tempParent, sourceNode, visited) == "no"

RECURSIVE movesIntoItself(_, _, _, _)
movesIntoItself(h, tempParent, sourceNode, visited) ==
  IF tempParent = Null THEN "no"
  ELSE IF tempParent = sourceNode THEN "yes"
  ELSE IF tempParent \in visited THEN "hang"
  ELSE movesIntoItself(h, lock(h, h[tempParent].parent), sourceNode,
                       visited \cup {tempParent})

\* oldParent->children.erase(sourceNode->name); sourceNode->parent = newParent;
\* sourceNode->name = newName; newParent->children[newName] = sourceNode;
\* reparent as it would be without the erase from the old parent.
reparent_noErase(h, sourceNode, oldParent, newParent, newName) ==
  LET h2 == [h EXCEPT ![sourceNode].parent = newParent,
                      ![sourceNode].name = newName]
  IN  [h2 EXCEPT ![newParent].children = insert(@, newName, sourceNode)]

reparent(h, sourceNode, oldParent, newParent, newName) ==
  LET h1 == [h EXCEPT ![oldParent].children = erase(@, h[sourceNode].name)]
      h2 == [h1 EXCEPT ![sourceNode].parent = newParent,
                       ![sourceNode].name = newName]
  IN  [h2 EXCEPT ![newParent].children = insert(@, newName, sourceNode)]

mv(h, sourcePath, destPath) ==
  IF sourcePath = <<"/">> THEN Throw("InvalidPath", h)
  ELSE
    LET sourceNode == _resolvePath(h, sourcePath)
    IN  IF sourceNode.err # "ok" THEN Throw(sourceNode.err, h)
        ELSE
          LET oldParent == lock(h, h[sourceNode.node].parent)
          IN  IF oldParent = Null THEN Throw("InternalError", h)
              ELSE
                LET d == _resolveDestination(h, destPath,
                                             h[sourceNode.node].name)
                IN  IF d.err # "ok" THEN Throw(d.err, h)
                    ELSE
                      LET c == movesIntoItself(h, d.node, sourceNode.node, {})
                      IN  IF c = "yes" THEN Throw("CyclicMove", h)
                          ELSE IF c = "hang" THEN Crash(h)
                          ELSE Ok(release(reparent(h, sourceNode.node,
                                                   oldParent, d.node, d.name)))

(***************************************************************************)
(* Queries.                                                                *)
(***************************************************************************)
\* FileSystem::cat
cat(h, path) ==
  LET node == _resolvePath(h, path)
  IN  IF node.err # "ok" THEN [status |-> node.err, value |-> << >>]
      ELSE IF h[node.node].type # "File"
      THEN [status |-> "NotAFile", value |-> << >>]
      ELSE [status |-> "ok", value |-> h[node.node].content]

\* FileSystem::exists
exists(h, path) == _resolvePath(h, path).err = "ok"

\* FileSystem::getNodeType
getNodeType(h, path) ==
  LET node == _resolvePath(h, path)
  IN  IF node.err # "ok" THEN [status |-> node.err, value |-> "none"]
      ELSE [status |-> "ok", value |-> h[node.node].type]

\* FileSystem::execute as it would be without the test of the node's type.
execute_unchecked(h, path, ran) ==
  LET node == _resolvePath(h, path)
  IN  IF node.err # "ok" THEN [status |-> node.err, value |-> -1]
      ELSE IF ran THEN [status |-> "ok", value |-> 0]
      ELSE [status |-> "ExecutionFailed", value |-> -1]

\* FileSystem::execute.  Once the node is known to be a File its bytes go to
\* a temporary file and std::system runs it: ran tells whether the platform
\* let that happen.  The exit code is not modelled beyond a 0.
execute(h, path, ran) ==
  LET node == _resolvePath(h, path)
  IN  IF node.err # "ok" THEN [status |-> node.err, value |-> -1]
      ELSE IF h[node.node].type # "File"
      THEN [status |-> "NotAFile", value |-> -1]
      ELSE IF ran THEN [status |-> "ok", value |-> 0]
      ELSE [status |-> "ExecutionFailed", value |-> -1]

\* FileNode::size and DirectoryNode::size: the virtual call child->size().
RECURSIVE node_size(_, _)
RECURSIVE total_size(_, _, _)
\* for (const auto& [name, child] : children) total_size += child->size();
total_size(h, n, todo) ==
  IF todo = {} THEN 0
  ELSE LET name == CHOOSE x \in todo : TRUE
       IN  node_size(h, h[n].children[name]) + total_size(h, n, todo \ {name})

\* size() as it would be if a directory did not ask its children.
node_size_own(h, n) == Len(h[n].content)

node_size(h, n) ==
  IF h[n].type = "File" THEN Len(h[n].content)
  ELSE total_size(h, n, DOMAIN h[n].children)

\* FileSystem::size
size(h, path) ==
  LET node == _resolvePath(h, path)
  IN  IF node.err # "ok" THEN [status |-> node.err, value |-> 0]
      ELSE [status |-> "ok", value |-> node_size(h, node.node)]

(***************************************************************************)
(* Names are compared as std::string compares them: by character code,     *)
(* a proper prefix first.                                                  *)
(***************************************************************************)
Code(c) ==
  CASE c = "." -> 46
    [] c = "/" -> 47
    [] c = "a" -> 97
    [] c = "b" -> 98

RECURSIVE StringLess(_, _)
StringLess(x, y) ==
  IF y = << >> THEN FALSE
  ELSE IF x = << >> THEN TRUE
  ELSE IF Head(x) # Head(y) THEN Code(Head(x)) < Code(Head(y))
  ELSE StringLess(Tail(x), Tail(y))

\* The strings of S in ascending order.
RECURSIVE Sorted(_)
Sorted(S) ==
  IF S = {} THEN << >>
  ELSE LET least == CHOOSE x \in S : \A y \in S \ {x} : StringLess(x, y)
       IN  <<least>> \o Sorted(S \ {least})

\* FileSystem::ls as it would be without the mark on directories.
ls_unmarked(h, path) ==
  LET node == _resolvePath(h, path)
  IN  IF node.err # "ok" THEN [status |-> node.err, value |-> << >>]
      ELSE IF h[node.node].type # "Directory"
      THEN [status |-> "NotADirectory", value |-> << >>]
      ELSE [status |-> "ok", value |-> Sorted(DOMAIN h[node.node].children)]

\* FileSystem::ls: the entries are made first and then sorted, mark included.
ls(h, path) ==
  LET node == _resolvePath(h, path)
  IN  IF node.err # "ok" THEN [status |-> node.err, value |-> << >>]
      ELSE IF h[node.node].type # "Directory"
      THEN [status |-> "NotADirectory", value |-> << >>]
      ELSE LET dirNode == h[node.node]
               entries ==
                 {name \o (IF h[dirNode.children[name]].type = "Directory"
                           THEN <<"/">> ELSE << >>) :
                    name \in DOMAIN dirNode.children}
           IN  [status |-> "ok", value |-> Sorted(entries)]

(***************************************************************************)
(* Node addresses are not observable through the public interface, which   *)
(* takes paths and hands out values: between calls the nodes are renamed   *)
(* to their position in the preorder walk of the tree.                     *)
(***************************************************************************)
RECURSIVE Preorder(_, _)
RECURSIVE PreorderAll(_, _, _)
PreorderAll(h, n, names) ==
  IF names = << >> THEN << >>
  ELSE Preorder(h, h[n].children[Head(names)])
         \o PreorderAll(h, n, Tail(names))

Preorder(h, n) == <<n>> \o PreorderAll(h, n, Sorted(DOMAIN h[n].children))

Renamed(h) ==
  LET order == Preorder(h, Root)
      pos == [n \in DOMAIN h |-> (CHOOSE i \in 1..Len(order) : order[i] = n) - 1]
  IN  [i \in 0..(Len(order) - 1) |->
         LET n == order[i + 1]
         IN  [h[n] EXCEPT
               !.parent = IF @ = Null THEN Null ELSE pos[@],
               !.children = [k \in DOMAIN h[n].children |->
                               pos[h[n].children[k]]]]]

(***************************************************************************)
(* The state machine: one action per public mutating operation, taken when *)
(* the caller is ready to call.  pre is the heap the call started from and *)
(* last records the call and its outcome, until the caller goes on.  Once  *)
(* the process has crashed nothing more happens.                           *)
(***************************************************************************)
\* Paths given to the one-path operations.
Paths ==
  { <<"/">>,
    <<"/", "a">>,
    <<"/", "b">>,
    <<"/", "a", "/", "b">>,
    <<"/", "a", "/">>,
    <<"/", "a", "/", ".", ".">>,
    <<"/", "a", "/", ".", ".", "/", "b">>,
    <<"/", ".">>,
    <<"a">>,
    <<"a", "/", "b">> }

\* Paths given to cp and mv as the source and as the destination.
SourcePaths ==
  { <<"/">>,
    <<"/", "a">>,
    <<"/", "b">>,
    <<"/", "a", "/", "b">>,
    <<"/", "a", "/", ".", ".">> }

DestPaths ==
  { <<"/">>,
    <<"/", "a">>,
    <<"/", "b">>,
    <<"/", "a", "/", "b">>,
    <<"/", "a", "/">>,
    <<"/", "a", "/", ".", ".">> }

\* Contents given to writeFile, and to append.
Contents == {<< >>, <<1>>}
Appended == {<<2>>}

RECURSIVE TotalBytes(_, _)
TotalBytes(h, S) ==
  IF S = {} THEN 0
  ELSE LET n == CHOOSE x \in S : TRUE
       IN  Len(h[n].content) + TotalBytes(h, S \ {n})

WithinBounds(h, nodes) ==
  /\ Cardinality(DOMAIN h) <= nodes + 1
  /\ TotalBytes(h, DOMAIN h) <= MaxBytes

Call(op, src, dest, content, recursive) ==
  [op |-> op, src |-> src, dest |-> dest, content |-> content,
   recursive |-> recursive]

NoCall == [call |-> Call("none", << >>, << >>, << >>, FALSE), status |-> "ok"]

\* The call is made on the current tree and r is what it does.
Step(nodes, call, r) ==
  /\ pc = "ready"
  /\ WithinBounds(r.heap, nodes)
  /\ heap' = r.heap
  /\ pre' = heap
  /\ last' = [call |-> call, status |-> r.status]
  /\ pc' = IF r.status = "crash" THEN "crashed" ELSE "returned"

Init ==
  /\ heap = [n \in {Root} |-> DirectoryNode(<<"/">>, Null)]
  /\ pre = heap
  /\ last = NoCall
  /\ pc = "ready"

Mkdir(P, nodes) ==
  \E p \in P :
    Step(nodes, Call("mkdir", p, << >>, << >>, FALSE), mkdir(heap, p))

Touch(P, nodes) ==
  \E p \in P :
    Step(nodes, Call("touch", p, << >>, << >>, FALSE), touch(heap, p))

WriteFile(P, nodes) ==
  \E p \in P, b \in Contents :
    Step(nodes, Call("writeFile", p, << >>, b, FALSE), writeFile(heap, p, b))

AppendTo(P, nodes) ==
  \E p \in P, b \in Appended :
    Step(nodes, Call("append", p, << >>, b, FALSE), append(heap, p, b))

Rm(P, nodes) ==
  \E p \in P, recursive \in BOOLEAN :
    Step(nodes, Call("rm", p, << >>, << >>, recursive), rm(heap, p, recursive))

Cp(S, D, nodes) ==
  \E s \in S, d \in D :
    Step(nodes, Call("cp", s, d, << >>, FALSE), cp(heap, s, d))

Mv(S, D, nodes) ==
  \E s \in S, d \in D :
    Step(nodes, Call("mv", s, d, << >>, FALSE), mv(heap, s, d))

\* The call has returned; the caller goes on to its next call.
Return ==
  /\ pc = "returned"
  /\ heap' = Renamed(heap)
  /\ pre' = heap'
  /\ last' = NoCall
  /\ pc' = "ready"

OpMkdir == Mkdir(Paths, MaxNodes)
OpTouch == Touch(Paths, MaxNodes)
OpWriteFile == WriteFile(Paths, MaxNodes)
OpAppend == AppendTo(Paths, MaxNodes)
OpRm == Rm(Paths, MaxNodes)
OpCp == Cp(SourcePaths, DestPaths, MaxNodes)
OpMv == Mv(SourcePaths, DestPaths, MaxNodes)

Next ==
  \/ OpMkdir \/ OpTouch \/ OpWriteFile \/ OpAppend \/ OpRm \/ OpCp \/ OpMv
  \/ Return

Spec == Init /\ [][Next]_vars

(***************************************************************************)
(* Copies of deeper trees: directories are made, files written and both    *)
(* copied, in trees of twice as many nodes.                                *)
(***************************************************************************)
CopyNodes == 2 * MaxNodes

CopyPaths ==
  { <<"/", "a", "/", "b">>,
    <<"/", "a", "/", "a">>,
    <<"/", "a", "/", "b", "/", "a">>,
    <<"/", "b">> }

CopySources ==
  { <<"/", "a">>,
    <<"/", "a", "/", "b">>,
    <<"/", "b">> }

CopyDests ==
  { <<"/", "a">>,
    <<"/", "b">>,
    <<"/", "b", "/", "a">> }

CopyMkdir == Mkdir(CopyPaths, CopyNodes)
CopyWriteFile == WriteFile(CopyPaths, CopyNodes)
CopyCp == Cp(CopySources, CopyDests, CopyNodes)

NextCopy == CopyMkdir \/ CopyWriteFile \/ CopyCp \/ Return

SpecCopy == Init /\ [][NextCopy]_vars

(***************************************************************************)
(* Paths whose last component is "." or "..", met below the root:          *)
(* directories and files are made and removed through them.                *)
(***************************************************************************)
DotPaths ==
  { <<"/", "a">>,
    <<"/", "a", "/", ".">>,
    <<"/", "a", "/", "b">>,
    <<"/", "a", "/", "b", "/", ".", ".">> }

DotMkdir == Mkdir(DotPaths, MaxNodes)
DotTouch == Touch(DotPaths, MaxNodes)
DotRm == Rm(DotPaths, MaxNodes)

NextDots == DotMkdir \/ DotTouch \/ DotRm \/ Return

SpecDots == Init /\ [][NextDots]_vars

(***************************************************************************)
(* Directory listings: a name may be another name with a character after   *)
(* it, so that the order of the entries is not that of the names when the  *)
(* shorter name is a directory's.                                          *)
(***************************************************************************)
LsPaths ==
  { <<"/", "a">>,
    <<"/", "a", ".">>,
    <<"/", "b">>,
    <<"/", "a", "/", "b">> }

LsMkdir == Mkdir(LsPaths, MaxNodes)
LsTouch == Touch(LsPaths, MaxNodes)
LsRm == Rm(LsPaths, MaxNodes)

NextLs == LsMkdir \/ LsTouch \/ LsRm \/ Return

SpecLs == Init /\ [][NextLs]_vars

(***************************************************************************)
(* The queries, called between the operations that build and take down a   *)
(* small tree.  exists, cat, ls, size and getNodeType are const member      *)
(* functions and execute assigns to no node: the tree a query leaves is    *)
(* the tree it was given.  exists returns a bool, recorded as the status.  *)
(***************************************************************************)
Queries == {"exists", "cat", "ls", "size", "getNodeType", "execute"}

QueryPaths ==
  { << >>,
    <<"/">>,
    <<"/", "a">>,
    <<"/", "a", "/", "b">> }

QueryStatus(q, h, path, ran) ==
  CASE q = "exists" -> IF exists(h, path) THEN "true" ELSE "false"
    [] q = "cat" -> cat(h, path).status
    [] q = "ls" -> ls(h, path).status
    [] q = "size" -> size(h, path).status
    [] q = "getNodeType" -> getNodeType(h, path).status
    [] q = "execute" -> execute(h, path, ran).status

Query(q, h, path, ran) == [status |-> QueryStatus(q, h, path, ran), heap |-> h]

QueryMkdir == Mkdir(QueryPaths, MaxNodes)
QueryTouch == Touch(QueryPaths, MaxNodes)
QueryRm == Rm(QueryPaths, MaxNodes)
QueryAsk ==
  \E q \in Queries, p \in QueryPaths, ran \in BOOLEAN :
    Step(MaxNodes, Call(q, p, << >>, << >>, FALSE), Query(q, heap, p, ran))

NextQuery == QueryMkdir \/ QueryTouch \/ QueryRm \/ QueryAsk \/ Return

SpecQuery == Init /\ [][NextQuery]_vars

(***************************************************************************)
(* What the claims speak of.                                               *)
(***************************************************************************)
Errors ==
  {"InvalidPath", "NotFound", "NotADirectory", "NotAFile", "IsADirectory",
   "AlreadyExists", "DirectoryNotEmpty", "CyclicMove", "InternalError"}

\* The last call was op and has returned (with a result or an exception).
Returned(op) == pc = "returned" /\ last.call.op = op
Succeeded(op) == Returned(op) /\ last.status = "ok"
Failed(op) == Returned(op) /\ last.status \in Errors

\* The node and its descendants, through the children maps.
Subtree(h, n) == Owned(h, {n})

\* The (directory, name) pairs under which node n is filed.
Filings(h, n) ==
  {<<d, k>> \in (DOMAIN h) \X UNION {DOMAIN h[d].children : d \in DOMAIN h} :
     k \in DOMAIN h[d].children /\ h[d].children[k] = n}

\* The source of the last cp or mv, resolved in the tree the call started from.
Src == _resolvePath(pre, last.call.src)
\* What its destination path resolved to there.
DestNode == _resolvePath(pre, last.call.dest)
\* The directory and name the call resolved for the new entry.
Dest == _resolveDestination(pre, last.call.dest, pre[Src.node].name)

(***************************************************************************)
(* C1.  After any sequence of public operations, successful or failing,    *)
(* every node other than the root has a parent that is a Directory of the  *)
(* tree and holds the node in its children map under exactly the node's    *)
(* name, and no node is filed under two directories (or two names).        *)
(***************************************************************************)
C1_Linked ==
  pc # "crashed" =>
    /\ DOMAIN heap = Subtree(heap, Root)
    /\ heap[Root].parent = Null /\ Filings(heap, Root) = {}
    /\ \A n \in (DOMAIN heap) \ {Root} :
         /\ heap[n].parent \in DOMAIN heap
         /\ heap[heap[n].parent].type = "Directory"
         /\ Filings(heap, n) = {<<heap[n].parent, heap[n].name>>}

\* A move has put a node under another directory and another name.
C1_Witness ==
  /\ Succeeded("mv")
  /\ heap[Src.node].parent # pre[Src.node].parent
  /\ heap[Src.node].name # pre[Src.node].name

(***************************************************************************)
(* C2.  Whenever touch, writeFile, append, rm, cp or mv fails with an      *)
(* error, the tree after the call (nodes, names, parent links, children    *)
(* and contents) is the tree before the call.                              *)
(***************************************************************************)
C2_FailureLeavesTree ==
  \A op \in {"touch", "writeFile", "append", "rm", "cp", "mv"} :
    Failed(op) => heap = pre

\* rm has refused a directory that has children.
C2_Witness == Failed("rm") /\ last.status = "DirectoryNotEmpty"

(***************************************************************************)
(* C3.  mv fails with CyclicMove and leaves the tree unchanged whenever    *)
(* the directory resolved to receive the node is the source node or one of *)
(* its descendants; and in every reachable tree no node is its own         *)
(* descendant and every parent chain ends at the root.                     *)
(***************************************************************************)
RECURSIVE ParentChain(_, _, _)
ParentChain(h, n, seen) ==
  IF n \notin DOMAIN h \/ n \in seen THEN seen
  ELSE ParentChain(h, h[n].parent, seen \cup {n})

C3_Acyclic ==
  pc # "crashed" =>
    \A n \in DOMAIN heap :
      /\ Root \in ParentChain(heap, n, {})
      /\ n \notin Owned(heap, Range(heap[n].children))

\* The move would put the source under itself.
C3_IntoItself ==
  /\ Returned("mv")
  /\ Src.err = "ok"
  /\ Dest.err = "ok"
  /\ Dest.node \in Subtree(pre, Src.node)

\* The claim as stated: it covers a source that resolves to the root.
C3_Original ==
  /\ C3_Acyclic
  /\ C3_IntoItself => last.status = "CyclicMove" /\ heap = pre

\* As amended: for a source other than the root.
C3_CycleGuard ==
  /\ C3_Acyclic
  /\ C3_IntoItself /\ Src.node # Root =>
       last.status = "CyclicMove" /\ heap = pre

\* mv of a directory into a directory below it has been refused.
C3_Witness ==
  /\ C3_IntoItself
  /\ Dest.node # Src.node
  /\ last.status = "CyclicMove"

(***************************************************************************)
(* C4.  cp and mv onto a path that resolves to an existing File fail       *)
(* (with AlreadyExists) and leave that File and the rest of the tree       *)
(* unchanged.  Stated here without the error kind, for a source that       *)
(* resolves to a node other than the root and other than that File.        *)
(***************************************************************************)
C4_OntoFile ==
  \A op \in {"cp", "mv"} :
    ( /\ Returned(op)
      /\ Src.err = "ok" /\ Src.node # Root
      /\ DestNode.err = "ok"
      /\ pre[DestNode.node].type = "File"
      /\ DestNode.node # Src.node )
    => last.status \in Errors /\ heap = pre

(***************************************************************************)
(* C5.  When dest resolves to an existing Directory D that already has a   *)
(* child with the source's name, cp and mv fail (with AlreadyExists) and   *)
(* leave the tree unchanged: D and its children are neither replaced nor   *)
(* removed.  Stated here without the error kind, for a source other than   *)
(* the root.                                                               *)
(***************************************************************************)
C5_IntoDirectory ==
  \A op \in {"cp", "mv"} :
    ( /\ Returned(op)
      /\ Src.err = "ok" /\ Src.node # Root
      /\ DestNode.err = "ok"
      /\ pre[DestNode.node].type = "Directory"
      /\ pre[Src.node].name \in DOMAIN pre[DestNode.node].children )
    => last.status \in Errors /\ heap = pre

(***************************************************************************)
(* C7.  Every public operation returns, with a result or an error, on      *)
(* every reachable tree and every argument: the process never dies in a    *)
(* call, also not in cp of a Directory into itself or its own subtree.     *)
(***************************************************************************)
C7_Terminates == pc # "crashed"

(***************************************************************************)
(* C8.  After a successful writeFile(p, b), cat(p) succeeds and returns    *)
(* exactly b.                                                              *)
(***************************************************************************)
C8_RoundTrip ==
  Succeeded("writeFile") =>
    cat(heap, last.call.src) = [status |-> "ok", value |-> last.call.content]

(***************************************************************************)
(* C9.  For an absolute path p, exists(p) is true right after a successful *)
(* mkdir(p), touch(p) or writeFile(p, b) and false right after a           *)
(* successful rm(p), also when p has '.' or '..' components.               *)
(***************************************************************************)
Absolute(path) == path # << >> /\ Head(path) = "/"

C9_Exists ==
  /\ \A op \in {"mkdir", "touch", "writeFile"} :
       Succeeded(op) /\ Absolute(last.call.src) => exists(heap, last.call.src)
  /\ Succeeded("rm") /\ Absolute(last.call.src) => ~exists(heap, last.call.src)

(***************************************************************************)
(* C10.  After a successful mv whose destination is not the source's own   *)
(* place, exists(src) is false and the moved node, with its content or its *)
(* whole subtree unchanged, is found at dest/<name of src> when dest was   *)
(* an existing Directory, and at dest itself otherwise.                    *)
(***************************************************************************)
\* The node keeps its type, content and children, and so does all below it.
SubtreeKept(n) ==
  /\ n \in DOMAIN heap
  /\ heap[n].type = pre[n].type
  /\ heap[n].content = pre[n].content
  /\ heap[n].children = pre[n].children
  /\ \A m \in Subtree(pre, n) \ {n} : m \in DOMAIN heap /\ heap[m] = pre[m]

DestWasDirectory == DestNode.err = "ok" /\ pre[DestNode.node].type = "Directory"

\* Where the claim expects the node.
ExpectedPath ==
  IF DestWasDirectory
  THEN last.call.dest \o <<"/">> \o pre[Src.node].name
  ELSE last.call.dest

\* The move is to another place than the one the source has.
MovesAway ==
  /\ ~(Dest.node = pre[Src.node].parent /\ Dest.name = pre[Src.node].name)
  /\ ~(DestWasDirectory /\ DestNode.node = pre[Src.node].parent)

C10_Moved ==
  Succeeded("mv") /\ MovesAway =>
    /\ ~exists(heap, last.call.src)
    /\ _resolvePath(heap, ExpectedPath) = Found(Src.node)
    /\ SubtreeKept(Src.node)

\* C10 without the case C5 is about (dest an existing Directory that has a
\* child with the source's name).
C10_MovedNoClash ==
  /\ Succeeded("mv") /\ MovesAway
  /\ ~(DestWasDirectory /\ pre[Src.node].name \in DOMAIN pre[DestNode.node].children)
  => /\ ~exists(heap, last.call.src)
     /\ _resolvePath(heap, ExpectedPath) = Found(Src.node)
     /\ SubtreeKept(Src.node)

(***************************************************************************)
(* C6.  After a successful cp the source node and its whole subtree are    *)
(* unchanged (as is every other node that was there, but for the new entry *)
(* in the destination directory), exists(src) is still true, and the node  *)
(* at the resolved destination is a new node of the source's type whose    *)
(* content, or whose whole subtree of names, types and contents, equals    *)
(* the source's.                                                           *)
(***************************************************************************)
\* x and y have the same type and content and, name by name, the same trees
\* below them.
RECURSIVE SameTree(_, _, _)
SameTree(h, x, y) ==
  /\ h[x].type = h[y].type
  /\ h[x].content = h[y].content
  /\ DOMAIN h[x].children = DOMAIN h[y].children
  /\ \A k \in DOMAIN h[x].children :
       /\ h[h[y].children[k]].name = k
       /\ SameTree(h, h[x].children[k], h[y].children[k])

C6_Copy ==
  Succeeded("cp") =>
    /\ \A n \in DOMAIN pre :
         /\ n \in DOMAIN heap
         /\ n # Dest.node => heap[n] = pre[n]
    /\ \A n \in Subtree(pre, Src.node) : heap[n] = pre[n]
    /\ _resolvePath(heap, last.call.src) = Src
    /\ Dest.name \in DOMAIN heap[Dest.node].children
    /\ LET copy == heap[Dest.node].children[Dest.name]
       IN  /\ Subtree(heap, copy) \cap DOMAIN pre = {}
           /\ heap[copy].name = Dest.name
           /\ SameTree(heap, Src.node, copy)

\* A directory holding a directory that holds a file with content has been
\* copied.
C6_Witness ==
  /\ Succeeded("cp")
  /\ \E d \in Range(pre[Src.node].children) :
       \E f \in Range(pre[d].children) :
         pre[f].type = "File" /\ pre[f].content # << >>

(***************************************************************************)
(* C11.  For a path p that is absolute, does not end in "/" and names a    *)
(* node other than the root: rm(p, false) on a Directory that has a child  *)
(* fails with DirectoryNotEmpty and changes nothing; every other rm(p, r)  *)
(* succeeds and removes the node and all its descendants, so that exists   *)
(* is false for p and for the paths below p.  rm of a path that resolve    *)
(* does not find fails with NotFound.                                      *)
(***************************************************************************)
\* A path _resolveParentAndName is meant to take: absolute, not the root's,
\* not ending in a slash.
WellFormed(path) ==
  Absolute(path) /\ path # <<"/">> /\ path[Len(path)] # "/"

\* Names of one character, without the dot.
Names == {<<"a">>, <<"b">>}

\* Paths one and two components below p.
Below(path) ==
  {path \o <<"/">> \o n : n \in Names}
    \cup {path \o <<"/">> \o n \o <<"/">> \o m : n \in Names, m \in Names}

\* What the path of the last call resolved to in the tree the call started from.
Arg == _resolvePath(pre, last.call.src)

\* rm was asked, without the recursive flag, for a Directory that has a child.
RmNonEmpty ==
  /\ pre[Arg.node].type = "Directory"
  /\ DOMAIN pre[Arg.node].children # {}
  /\ ~last.call.recursive

C11_Rm ==
  Returned("rm") /\ WellFormed(last.call.src) =>
    /\ Arg.err = "ok" /\ Arg.node # Root /\ RmNonEmpty =>
         last.status = "DirectoryNotEmpty" /\ heap = pre
    /\ Arg.err = "ok" /\ Arg.node # Root /\ ~RmNonEmpty =>
         /\ last.status = "ok"
         /\ Subtree(pre, Arg.node) \cap DOMAIN heap = {}
         /\ ~exists(heap, last.call.src)
         /\ \A q \in Below(last.call.src) : ~exists(heap, q)
    /\ Arg.err = "NotFound" => last.status = "NotFound"

\* The same for the paths that have no "." in them.
NoDots(path) == \A i \in 1..Len(path) : path[i] # "."

C11_RmPlain == NoDots(last.call.src) => C11_Rm

(***************************************************************************)
(* C12.  In every reachable tree the root is the Directory the constructor *)
(* made, named "/", without a parent and filed under no directory, and     *)
(* "/" resolves to it; rm("/") and mv("/", d) fail with InvalidPath, and   *)
(* rm or mv of any other path that resolves to the root fails too and      *)
(* leaves the tree unchanged.                                              *)
(***************************************************************************)
\* The root is where and what it was.
C12_RootKept ==
  /\ Root \in DOMAIN heap
  /\ heap[Root].type = "Directory"
  /\ heap[Root].name = <<"/">>
  /\ heap[Root].parent = Null
  /\ Filings(heap, Root) = {}
  /\ _resolvePath(heap, <<"/">>) = Found(Root)

\* rm or mv was given "/" as the path of what to remove or move.
C12_Slash ==
  \A op \in {"rm", "mv"} :
    Returned(op) /\ last.call.src = <<"/">> =>
      last.status = "InvalidPath" /\ heap = pre

C12_Root ==
  /\ C12_RootKept
  /\ C12_Slash
  /\ \A op \in {"rm", "mv"} :
       Returned(op) /\ Arg = Found(Root) =>
         last.status \in Errors /\ heap = pre

\* No node of the tree is named "." or "..".
NoDotNames(h) == \A n \in DOMAIN h : h[n].name \notin {<<".">>, <<".", ".">>}

\* C12 for the calls made on a tree in which no node is named "." or "..".
C12_RootPlain == NoDotNames(pre) => C12_Root

(***************************************************************************)
(* C13.  touch(p) on a path that holds a File succeeds and leaves the      *)
(* whole tree, that File's content included, unchanged; touch(p) on a path *)
(* that holds a Directory fails with NotAFile; mkdir(p) on a path that     *)
(* resolves to a Directory succeeds and leaves the tree unchanged.  For    *)
(* absolute paths, and for touch those that do not end in "/".             *)
(***************************************************************************)
\* The path of the last call named a node of this type when the call began.
Held(type) == Arg.err = "ok" /\ pre[Arg.node].type = type

C13_Idempotent ==
  /\ Returned("touch") /\ WellFormed(last.call.src) /\ Held("File") =>
       last.status = "ok" /\ heap = pre
  /\ Returned("touch") /\ WellFormed(last.call.src) /\ Held("Directory") =>
       last.status = "NotAFile" /\ heap = pre
  /\ Returned("mkdir") /\ Absolute(last.call.src) /\ Held("Directory") =>
       last.status = "ok" /\ heap = pre

\* The same for the paths that have no "." in them.
C13_IdempotentPlain == NoDots(last.call.src) => C13_Idempotent

\* touch(p); touch(p) equals touch(p), and mkdir(p); mkdir(p) equals mkdir(p),
\* on every tree a call can start from and for every path.
C13_Twice ==
  pc = "ready" =>
    \A p \in Paths \cup DotPaths :
      /\ LET once == touch(heap, p)
         IN  once.status = "ok" => touch(once.heap, p) = once
      /\ LET once == mkdir(heap, p)
         IN  once.status = "ok" => mkdir(once.heap, p) = once

(***************************************************************************)
(* C14.  In every reachable tree (every tree a call starts from) size(p)   *)
(* of a File is the length of its content and size(p) of a Directory is    *)
(* the sum of the content lengths of all Files in its subtree; and after a *)
(* successful append the size of the file and of every directory above it  *)
(* has grown by the bytes appended.                                        *)
(***************************************************************************)
\* The node and the directories above it, up to the root.
Ancestors(h, n) == ParentChain(h, n, {})

C14_Size ==
  /\ pc = "ready" =>
       \A p \in Paths :
         LET node == _resolvePath(heap, p)
         IN  IF node.err # "ok"
             THEN size(heap, p).status = node.err
             ELSE size(heap, p) =
                    [status |-> "ok",
                     value |-> IF heap[node.node].type = "File"
                               THEN Len(heap[node.node].content)
                               ELSE TotalBytes(heap, Subtree(heap, node.node))]
  /\ Succeeded("append") =>
       \A d \in Ancestors(pre, Arg.node) :
         node_size(heap, d) = node_size(pre, d) + Len(last.call.content)

\* Bytes have been appended to a file in a directory below the root.
C14_Witness ==
  /\ Succeeded("append")
  /\ pre[Arg.node].parent # Root
  /\ size(heap, <<"/">>).value > size(pre, <<"/">>).value
  /\ size(pre, <<"/">>).value > 0

(***************************************************************************)
(* C15.  In every reachable tree ls(p) on a Directory returns one entry    *)
(* per child and no other, the child's name followed by "/" exactly when   *)
(* the child is a Directory, the entries in strictly ascending order as    *)
(* strings; being computed from the children alone it does not depend on   *)
(* the order of their creation.  ls(p) on a File fails with NotADirectory. *)
(***************************************************************************)
\* The entry ls gives for the child of directory d filed under name.
Entry(h, d, name) ==
  IF h[h[d].children[name]].type = "Directory" THEN name \o <<"/">> ELSE name

C15_Ls ==
  pc = "ready" =>
    \A p \in Paths \cup LsPaths :
      LET node == _resolvePath(heap, p)
          listed == ls(heap, p)
      IN  IF node.err # "ok" THEN listed.status = node.err
          ELSE IF heap[node.node].type = "File"
          THEN listed.status = "NotADirectory"
          ELSE /\ listed.status = "ok"
               /\ Len(listed.value) = Cardinality(DOMAIN heap[node.node].children)
               /\ \A name \in DOMAIN heap[node.node].children :
                    \E i \in 1..Len(listed.value) :
                      listed.value[i] = Entry(heap, node.node, name)
               /\ \A i \in 1..Len(listed.value) :
                    \A j \in (i + 1)..Len(listed.value) :
                      StringLess(listed.value[i], listed.value[j])

\* The root holds directory a, file a. and a third child: the file's entry
\* comes before the directory's.
C15_Witness ==
  /\ pc = "ready"
  /\ ls(heap, <<"/">>).status = "ok"
  /\ Len(ls(heap, <<"/">>).value) = 3
  /\ ls(heap, <<"/">>).value[1] = <<"a", ".">>
  /\ ls(heap, <<"/">>).value[2] = <<"a", "/">>

(***************************************************************************)
(* C16.  A successful writeFile or append changes the content of the one   *)
(* file it names and of no other node; and in the tree a successful cp     *)
(* leaves, no writeFile or append on a file of the source changes a node   *)
(* of the copy, and none on a file of the copy changes a node of the       *)
(* source.                                                                 *)
(***************************************************************************)
\* The nodes of h whose content is not the same in g, or that g has not.
Changed(h, g) ==
  {n \in DOMAIN h : n \notin DOMAIN g \/ g[n].content # h[n].content}

\* The file writeFile replaces, if there is one.
Replaced ==
  LET t == _resolveParentAndName(pre, last.call.src)
  IN  IF t.name \in DOMAIN pre[t.node].children
      THEN {pre[t.node].children[t.name]} ELSE {}

C16_OneFile ==
  /\ Succeeded("append") => Changed(pre, heap) = {Arg.node}
  /\ Succeeded("writeFile") => Changed(pre, heap) = Replaced

\* The copy the last cp made.
TheCopy == Subtree(heap, heap[Dest.node].children[Dest.name])

C16_AfterCopy ==
  Succeeded("cp") =>
    \A q \in Paths, b \in Contents \cup Appended :
      \A r \in {append(heap, q, b), writeFile(heap, q, b)} :
        r.status = "ok" =>
          \/ Changed(heap, r.heap) \cap TheCopy = {}
          \/ Changed(heap, r.heap) \cap Subtree(heap, Src.node) = {}

C16_NotShared == C16_OneFile /\ C16_AfterCopy

\* A file with content has been copied, and the source can be appended to.
C16_Witness ==
  /\ Succeeded("cp")
  /\ pre[Src.node].type = "File"
  /\ pre[Src.node].content # << >>
  /\ append(heap, last.call.src, <<2>>).status = "ok"
  /\ cat(heap, last.call.dest).value = pre[Src.node].content

(***************************************************************************)
(* C17.  exists, cat, ls, size, getNodeType and execute leave the tree as  *)
(* it was, whether they succeed or fail; exists raises no error and is     *)
(* false exactly when the path does not resolve, the empty path included;  *)
(* execute of a path that does not resolve to a File fails, before         *)
(* anything is run, with the error of the resolution or with NotAFile.     *)
(***************************************************************************)
C17_Frame == \A q \in Queries : Returned(q) => heap = pre

C17_ExistsTotal ==
  Returned("exists") =>
    /\ last.status \in {"true", "false"}
    /\ last.status = "false" <=> Arg.err # "ok"

\* The errors a resolution ends with.
ResolveErrors == {"InvalidPath", "NotFound", "NotADirectory"}

\* The claim as stated: NotFound or NotAFile, whatever the path.
C17_Original ==
  /\ C17_Frame
  /\ C17_ExistsTotal
  /\ Returned("execute") /\ ~Held("File") =>
       last.status \in {"NotFound", "NotAFile"}

\* As amended: the error is that of the resolution, or NotAFile.
C17_Queries ==
  /\ C17_Frame
  /\ C17_ExistsTotal
  /\ Returned("execute") /\ ~Held("File") =>
       /\ Arg.err # "ok" => last.status = Arg.err /\ Arg.err \in ResolveErrors
       /\ Arg.err = "ok" => last.status = "NotAFile"

\* execute was asked for a path that goes through a File.
C17_Witness ==
  /\ Returned("execute")
  /\ last.status = "NotADirectory"
  /\ heap = pre
  /\ ~exists(heap, last.call.src)

(***************************************************************************)
(* C18.  resolve(path) is the walk from the root over the components of    *)
(* the path: "." is passed over, ".." goes to the parent of the directory  *)
(* reached and stays at the root, a name goes to the child of that name;   *)
(* the walk fails with NotFound when there is no such child and with       *)
(* NotADirectory when the child is a File and components follow; the empty *)
(* path fails with InvalidPath.  The node reached last, a File or a        *)
(* Directory, is the result.                                               *)
(***************************************************************************)
\* The pieces of the path between its slashes, the empty ones left out.
RECURSIVE Components(_)
Components(path) ==
  IF path = << >> THEN << >>
  ELSE LET k == DelimPos(path)
           piece == SubSeq(path, 1, k - 1)
           others == Components(SubSeq(path, k + 1, Len(path)))
       IN  IF piece = << >> THEN others ELSE <<piece>> \o others

\* The walk the claim describes, from directory at over the components.
RECURSIVE Walk(_, _, _)
Walk(h, at, comps) ==
  IF comps = << >> THEN Found(at)
  ELSE
    LET c == Head(comps)
    IN  IF c = <<".">> THEN Walk(h, at, Tail(comps))
        ELSE IF c = <<".", ".">>
        THEN Walk(h, IF at = Root THEN Root ELSE h[at].parent, Tail(comps))
        ELSE IF c \notin DOMAIN h[at].children THEN Fail("NotFound")
        ELSE LET child == h[at].children[c]
             IN  IF h[child].type = "Directory"
                 THEN Walk(h, child, Tail(comps))
                 ELSE IF Tail(comps) # << >> THEN Fail("NotADirectory")
                 ELSE Found(child)

\* Paths resolved in every tree.
ResolvePaths ==
  Paths \cup DotPaths \cup
    { << >>,
      <<"/", ".", ".">>,
      <<"/", ".", ".", "/", "a">>,
      <<"/", "a", "/", ".", "/", "b">>,
      <<"/", "a", "/", "b", "/", ".">>,
      <<"/", "b", "/", "a">> }

C18_Resolve ==
  pc = "ready" =>
    /\ _resolvePath(heap, << >>) = Fail("InvalidPath")
    /\ _resolvePath(heap, <<"/", ".", ".">>) = Found(Root)
    /\ \A p \in ResolvePaths \ {<< >>} :
         _resolvePath(heap, p) = Walk(heap, Root, Components(p))

\* In one tree ".." leads from a directory below the root back to a
\* directory that is not the root, and a path through ".." ends at a File.
C18_Witness ==
  /\ pc = "ready"
  /\ LET up == _resolvePath(heap, <<"/", "a", "/", "b", "/", ".", ".">>)
     IN  up.err = "ok" /\ up.node # Root
  /\ LET file == _resolvePath(heap, <<"/", "a", "/", ".", ".", "/", "b">>)
     IN  file.err = "ok" /\ heap[file.node].type = "File"

(***************************************************************************)
(* C19.  touch, writeFile and rm fail with InvalidPath and leave the tree  *)
(* unchanged for the path "/", for every path that ends in "/" and for     *)
(* every path that does not begin with "/".                                *)
(***************************************************************************)
EndsInSlash(path) == path # << >> /\ path[Len(path)] = "/"

C19_InvalidPath ==
  \A op \in {"touch", "writeFile", "rm"} :
    Returned(op) /\ (EndsInSlash(last.call.src) \/ ~Absolute(last.call.src)) =>
      last.status = "InvalidPath" /\ heap = pre

\* The same with, for the paths that do not begin with "/", only those that
\* have no "/" at all.
C19_NoSlashAtAll ==
  \A op \in {"touch", "writeFile", "rm"} :
    Returned(op) /\ (EndsInSlash(last.call.src) \/ find_last_of(last.call.src) = 0) =>
      last.status = "InvalidPath" /\ heap = pre

(***************************************************************************)
(* C20.  For cp and mv of a source that resolves, with a dest that does    *)
(* not resolve and does not end in "/": when the path before the last "/"  *)
(* of dest resolves to a Directory P, the call that returns succeeds       *)
(* (unless it is a mv into the source's own subtree) and the moved node,   *)
(* or a new copy of the source, is filed in P under the last component of  *)
(* dest; when that path is not found the call fails with NotFound and the  *)
(* tree, in which no directory has been made, is unchanged.                *)
(***************************************************************************)
\* dest split at its last "/", the part before it resolved.
DestParent == _resolveParentAndName(pre, last.call.dest)

\* The text of dest after its last "/".
LastComponent ==
  SubSeq(last.call.dest, find_last_of(last.call.dest) + 1, Len(last.call.dest))

\* The last call was a cp or mv of a source other than the root to a dest
\* that does not resolve.
ToNewPath(op) ==
  /\ Returned(op)
  /\ Src.err = "ok" /\ Src.node # Root
  /\ DestNode.err # "ok"
  /\ WellFormed(last.call.dest)

\* Node n is filed in directory d under name, and knows it.
FiledAt(n, d, name) ==
  /\ name \in DOMAIN heap[d].children
  /\ heap[d].children[name] = n
  /\ heap[n].name = name
  /\ heap[n].parent = d

KeptButChildren(n) ==
  /\ n \in DOMAIN heap
  /\ heap[n].type = pre[n].type
  /\ heap[n].name = pre[n].name
  /\ heap[n].parent = pre[n].parent
  /\ heap[n].content = pre[n].content

C21_AppendWrite ==
  /\ Returned("append") =>
       /\ Held("File") =>
            /\ last.status = "ok"
            /\ heap = [pre EXCEPT ![Arg.node].content = @ \o last.call.content]
       /\ Held("Directory") => last.status = "NotAFile" /\ heap = pre
       /\ Arg.err # "ok" => last.status = Arg.err /\ heap = pre
  /\ Returned("writeFile") /\ WellFormed(last.call.src) =>
       /\ Held("Directory") => last.status = "IsADirectory" /\ heap = pre
       /\ last.status = "ok" =>
            /\ cat(heap, last.call.src) =
                 [status |-> "ok", value |-> last.call.content]
            /\ \A n \in DOMAIN pre :
                 IF Held("File") /\ n = Arg.node THEN n \notin DOMAIN heap
                 ELSE /\ KeptButChildren(n)
                      /\ \A k \in DOMAIN pre[n].children :
                           pre[n].children[k] \in DOMAIN heap =>
                             /\ k \in DOMAIN heap[n].children
                             /\ heap[n].children[k] = pre[n].children[k]
            /\ Cardinality((DOMAIN heap) \ (DOMAIN pre)) = 1

\* The same for the paths that have no "." in them.
C21_AppendWritePlain == NoDots(last.call.src) => C21_AppendWrite

(***************************************************************************)
(* C22.  A successful mv creates and destroys no node: the nodes of the    *)
(* tree, their types and the content of every File are the same before and *)
(* after the call, only the moved node's parent and name may differ, and   *)
(* the number of nodes and size("/") are unchanged.                        *)
(***************************************************************************)
C22_MoveKeeps ==
  Succeeded("mv") =>
    /\ DOMAIN heap = DOMAIN pre
    /\ \A n \in DOMAIN pre \cap DOMAIN heap :
         /\ heap[n].type = pre[n].type
         /\ heap[n].content = pre[n].content
         /\ n # Src.node =>
              heap[n].name = pre[n].name /\ heap[n].parent = pre[n].parent
    /\ Cardinality(DOMAIN heap) = Cardinality(DOMAIN pre)
    /\ size(heap, <<"/">>) = size(pre, <<"/">>)

\* dest named a File, or a Directory that has a child of the source's name:
\* the cases of C4 and C5.
DestClash ==
  /\ DestNode.err = "ok"
  /\ \/ pre[DestNode.node].type = "File"
     \/ pre[Src.node].name \in DOMAIN pre[DestNode.node].children

\* C22 for the moves outside those cases.
C22_MoveKeepsNoClash == (Succeeded("mv") /\ ~DestClash) => C22_MoveKeeps

(***************************************************************************)
(* C23.  In every reachable tree no child is named "", "." or ".." or has  *)
(* a "/" in its name, and the path made of "/" and the names on the chain  *)
(* from the root to a node, joined by "/", resolves to exactly that node.  *)
(***************************************************************************)
\* "/" and the names from the root down to node n, joined by "/".
RECURSIVE PathTo(_, _)
PathTo(h, n) ==
  IF n = Root THEN <<"/">>
  ELSE IF h[n].parent = Root THEN <<"/">> \o h[n].name
  ELSE PathTo(h, h[n].parent) \o <<"/">> \o h[n].name

\* No child has the empty name or a name with a slash in it.
C23_NamesAreSegments ==
  pc = "ready" =>
    \A n \in (DOMAIN heap) \ {Root} :
      /\ heap[n].name # << >>
      /\ \A i \in 1..Len(heap[n].name) : heap[n].name[i] # "/"

C23_Addressable ==
  pc = "ready" =>
    /\ C23_NamesAreSegments
    /\ \A n \in (DOMAIN heap) \ {Root} :
         /\ heap[n].name \notin {<<".">>, <<".", ".">>}
         /\ _resolvePath(heap, PathTo(heap, n)) = Found(n)

\* In the trees that have no node named "." or "..", every node is found at
\* its path.
C23_AddressablePlain ==
  pc = "ready" /\ NoDotNames(heap) =>
    \A n \in DOMAIN heap : _resolvePath(heap, PathTo(heap, n)) = Found(n)

(***************************************************************************)
(* C24.  mkdir(path) fails with NotADirectory exactly when the walk over   *)
(* the components of path, through directories that exist, comes to a      *)
(* File, and then the tree is unchanged; it fails in no other way; and     *)
(* when it succeeds path resolves to a Directory and every node that was   *)
(* in the tree is still there, with its type, name, parent, content and    *)
(* children.                                                               *)
(***************************************************************************)
\* The walk from directory at over the components comes to a File before it
\* comes to a component that is missing.
RECURSIVE MeetsFile(_, _, _)
MeetsFile(h, at, comps) ==
  IF comps = << >> THEN FALSE
  ELSE
    LET c == Head(comps)
    IN  IF c = <<".">> THEN MeetsFile(h, at, Tail(comps))
        ELSE IF c = <<".", ".">>
        THEN MeetsFile(h, IF at = Root THEN Root ELSE h[at].parent, Tail(comps))
        ELSE IF c \notin DOMAIN h[at].children THEN FALSE
        ELSE LET child == h[at].children[c]
             IN  IF h[child].type = "File" THEN TRUE
                 ELSE MeetsFile(h, child, Tail(comps))

C24_Mkdir ==
  Returned("mkdir") =>
    /\ last.status \in {"ok", "NotADirectory"}
    /\ last.status = "NotADirectory" <=>
         MeetsFile(pre, Root, Components(last.call.src))
    /\ last.status = "NotADirectory" => heap = pre
    /\ last.status = "ok" =>
         /\ LET made == _resolvePath(heap, last.call.src)
            IN  made.err = "ok" /\ heap[made.node].type = "Directory"
         /\ \A n \in DOMAIN pre :
              /\ KeptButChildren(n)
              /\ \A k \in DOMAIN pre[n].children :
                   /\ k \in DOMAIN heap[n].children
                   /\ heap[n].children[k] = pre[n].children[k]

\* The same for the paths that have no "." in them.
C24_MkdirPlain == NoDots(last.call.src) => C24_Mkdir

====
